---- MODULE Spec2Model ----
(***************************************************************************)
(* Payment lifecycle of alx_travel_app: the Payment table, the Chapa       *)
(* gateway client (ChapaService), the payment business logic               *)
(* (PaymentService), the API actions that call it and the Celery tasks.    *)
(*                                                                         *)
(* Money is counted in cents (DecimalField with two decimal places), dates *)
(* in days, time in hours.  A request handler or task that waits for the   *)
(* gateway is split at each HTTP request: it loads its own copy of the     *)
(* Payment row, waits, and Model.save() later writes every field of that   *)
(* copy back.                                                              *)
(***************************************************************************)
EXTENDS Integers, Sequences, FiniteSets, Bags, TLC

\* ------------------------------------------------------------------ bounds
MaxBookings == 1      \* bookings (and their payments) created in one run
MaxCreated  == 2      \* the same, where only booking creation is explored
MaxWorkers  == 2      \* request handlers / task workers running at once
MaxDay      == 3      \* booking dates are days 0..MaxDay
MaxNow      == 25     \* the clock stops here (hours)
MaxQueue    == 2      \* notification tasks waiting in the Celery queue
HalfDay     == 12      \* the shorter of the two steps of the clock in SpecMany
TickHours   == 25     \* the clock advances in steps of this many hours

\* --------------------------------------------------------- program constants
CutoffHours == 24     \* timedelta(hours=24) in cleanup_expired_payments

NULL == "NULL"        \* Python None / SQL NULL

\* Python truthiness of an optional string: None and '' are falsy.
Falsy(x) == x = NULL \/ x = ""

\* ------------------------------------------------------------ fixed tables
\* auth.User rows the requests are made by.  Names are sequences of words.
Users ==
  [ ada |-> [username |-> "ada", email |-> "ada@example.com",
             first_name |-> <<"Ada">>, last_name |-> <<"Lovelace">>],
    bob |-> [username |-> "bob", email |-> "bob@example.com",
             first_name |-> <<>>, last_name |-> <<>>] ]

UserIds == DOMAIN Users

\* Listing.price_per_night, in cents.
ListingPrices == [villa |-> 10000, studio |-> 2550]

ListingIds == DOMAIN ListingPrices

\* Payment.PAYMENT_STATUS_CHOICES
PAYMENT_STATUS_CHOICES == {"pending", "processing", "completed", "failed", "cancelled"}

\* ------------------------------------------------------------------- state
VARIABLES
  bookings,   \* Booking table: id -> row
  payments,   \* Payment table: id -> row
  now,        \* timezone.now(), in hours
  calls,      \* per worker: the handler or task it is running, with its locals
  queue,      \* Celery queue: notification tasks enqueued with .delay()
  last,       \* what the handler or task that finished last returned
  tx_refs     \* the tx_ref values the initialize requests sent so far carried

vars == <<bookings, payments, now, calls, queue, last, tx_refs>>

\* ------------------------------------------------------------ the gateway
\* What one HTTP request to Chapa can come back with: no response at all
\* (connection error, DNS failure), a non-2xx response, or a 2xx response
\* whose JSON body has a "data" object, has none, or has "data": null.
GatewayStatuses == {"success", "pending", "failed", "cancelled", "SUCCESS", "weird_status", NULL}

HttpFailures ==
  { [kind |-> k, data |-> "none", checkout_url |-> NULL, reference |-> NULL,
     status |-> NULL, amount |-> NULL, currency |-> NULL] : k \in {"transport", "http_error"} }

InitializeResponses ==
  { [kind |-> "ok", data |-> "object", checkout_url |-> "https://checkout.chapa.co/a",
     reference |-> "chapa-a", status |-> NULL, amount |-> NULL, currency |-> NULL],
    [kind |-> "ok", data |-> "absent", checkout_url |-> NULL,
     reference |-> NULL, status |-> NULL, amount |-> NULL, currency |-> NULL],
    [kind |-> "ok", data |-> "null", checkout_url |-> NULL,
     reference |-> NULL, status |-> NULL, amount |-> NULL, currency |-> NULL] }
  \cup HttpFailures

VerifyResponses ==
  { [kind |-> "ok", data |-> "object", checkout_url |-> NULL, reference |-> NULL,
     status |-> s, amount |-> "300.00", currency |-> "ETB"] : s \in GatewayStatuses }
  \cup
  { [kind |-> "ok", data |-> d, checkout_url |-> NULL, reference |-> NULL,
     status |-> NULL, amount |-> NULL, currency |-> NULL] : d \in {"absent", "null"} }
  \cup HttpFailures

\* str(e) of the exception a response makes requests or the parsing raise.
ErrorOf(resp) ==
  CASE resp.kind = "transport"  -> "ConnectionError"
    [] resp.kind = "http_error" -> "HTTPError"
    [] OTHER                    -> "AttributeError"

NoResult ==
  [success |-> FALSE, checkout_url |-> NULL, transaction_ref |-> NULL, status |-> NULL,
   amount |-> NULL, currency |-> NULL, error |-> NULL, message |-> NULL]

\* ChapaService.initialize_payment, given what the POST came back with.
\* requests raises on a transport failure, raise_for_status on a non-2xx
\* response, and data.get('data', {}).get(...) on "data": null; all three are
\* caught and turned into a failure result.
ChapaInitializePayment(resp) ==
  IF resp.kind = "ok" /\ resp.data # "null"
  THEN [NoResult EXCEPT !.success = TRUE,
                        !.checkout_url = resp.checkout_url,
                        !.transaction_ref = resp.reference]
  ELSE [NoResult EXCEPT !.error = ErrorOf(resp),
                        !.message = IF resp.kind = "ok"
                                    THEN "An unexpected error occurred"
                                    ELSE "Failed to initialize payment"]

\* Mutant: verify_payment without raise_for_status, so that the body of a
\* non-2xx response is read like any other.
ChapaVerifyPayment_NoRaiseForStatus(resp) ==
  IF resp.kind # "transport" /\ resp.data # "null"
  THEN [NoResult EXCEPT !.success = TRUE,
                        !.status = resp.status,
                        !.amount = resp.amount,
                        !.currency = resp.currency,
                        !.transaction_ref = resp.reference]
  ELSE [NoResult EXCEPT !.error = ErrorOf(resp),
                        !.message = IF resp.kind = "ok"
                                    THEN "An unexpected error occurred"
                                    ELSE "Failed to verify payment"]

\* ChapaService.verify_payment, given what the GET came back with.
ChapaVerifyPayment(resp) ==
  IF resp.kind = "ok" /\ resp.data # "null"
  THEN [NoResult EXCEPT !.success = TRUE,
                        !.status = resp.status,
                        !.amount = resp.amount,
                        !.currency = resp.currency,
                        !.transaction_ref = resp.reference]
  ELSE [NoResult EXCEPT !.error = ErrorOf(resp),
                        !.message = IF resp.kind = "ok"
                                    THEN "An unexpected error occurred"
                                    ELSE "Failed to verify payment"]

\* str.lower() on the status strings the gateway can send.
Lower(s) ==
  CASE s = "SUCCESS" -> "success"
    [] OTHER         -> s

\* status_mapping.get(chapa_status, 'pending') in get_payment_status.
StatusMapping(chapa_status) ==
  CASE chapa_status = "success"   -> "completed"
    [] chapa_status = "pending"   -> "pending"
    [] chapa_status = "failed"    -> "failed"
    [] chapa_status = "cancelled" -> "cancelled"
    [] OTHER                      -> "pending"

\* ChapaService.get_payment_status, given what its own verify request came
\* back with: the mapped status, 'failed' when the request failed, and
\* "raise" when the result's status is None (None has no lower()).
RAISED == "raise"

ChapaGetPaymentStatus(resp) ==
  LET verification_result == ChapaVerifyPayment(resp)
  IN  IF verification_result.success
      THEN IF verification_result.status = NULL
           THEN RAISED
           ELSE StatusMapping(Lower(verification_result.status))
      ELSE "failed"

\* ------------------------------------------------------------------ tables
Workers == 1..MaxWorkers

Days == 0..MaxDay

\* uuid4() draws from as many values as there can be payments.
Uuids == 1..MaxBookings

\* What the initiate_payment endpoint accepts (PaymentInitiateSerializer):
\* both fields are optional.
InitiateRequests ==
  { [payment_method |-> "card", customer_phone |-> NULL] }

\* The instance of a worker that runs nothing, and the slot of a deleted
\* payment.
NoPayment ==
  [booking |-> 0, reference |-> 0, amount |-> 0, currency |-> NULL, status |-> NULL,
   payment_method |-> NULL, chapa_transaction_ref |-> NULL, checkout_url |-> NULL,
   customer_email |-> NULL, customer_name |-> <<>>, customer_phone |-> NULL,
   created_at |-> 0]

\* The slot of a deleted booking: ids are never given out again.
NoBooking == [listing |-> NULL, user |-> NULL, start_date |-> 0, end_date |-> 0]

\* The ids of the bookings and of the payments that exist; a deleted row
\* keeps its slot, filled with NoBooking or NoPayment.
BookingIds == {b \in DOMAIN bookings : bookings[b] # NoBooking}

PaymentIds == {p \in DOMAIN payments : payments[p] # NoPayment}

IdleCall ==
  [op |-> "idle", stage |-> "idle", pid |-> 0, payment |-> NoPayment,
   result |-> NoResult, nreq |-> 0]

\* What a handler or task returned: the result dictionary of the service
\* call, how many gateway requests the call made, and whether it ended by
\* raising instead of returning.
NoReturn ==
  [op |-> "none", pid |-> 0, raised |-> FALSE, success |-> FALSE, status |-> NULL,
   amount |-> NULL, currency |-> NULL, checkout_url |-> NULL, payment_id |-> 0,
   reference |-> 0, error |-> NULL, message |-> NULL, nreq |-> 0]

\* A request or task goes to a worker that runs nothing; which one makes no
\* difference, so it is the first.
Free(w) ==
  /\ calls[w] = IdleCall
  /\ \A v \in Workers : v < w => calls[v] # IdleCall

\* The rows of a table with one more row, under the next auto-increment id.
Insert(table, row) ==
  [id \in (DOMAIN table) \cup {Cardinality(DOMAIN table) + 1} |->
     IF id \in DOMAIN table THEN table[id] ELSE row]

\* Mutant: save() generates a reference every time.
PaymentSave_NewReference(table, id, instance, uuid) ==
  [table EXCEPT ![id] = [instance EXCEPT !.reference = uuid]]

\* Payment.save(): a missing reference is generated, then every field of the
\* instance is written to its row.
\* When the row is gone, save() inserts it again and auto_now_add stamps it.
PaymentSave(table, id, instance, uuid) ==
  LET row == IF instance.reference = 0
             THEN [instance EXCEPT !.reference = uuid]
             ELSE instance
  IN  [table EXCEPT ![id] = IF table[id] = NoPayment
                            THEN [row EXCEPT !.created_at = now]
                            ELSE row]

\* f"{user.first_name} {user.last_name}".strip() or user.username
CustomerName(user) ==
  IF user.first_name \o user.last_name # <<>>
  THEN user.first_name \o user.last_name
  ELSE <<user.username>>

\* Mutant: both the first and the last day are counted.
Nights_Inclusive(booking) == booking.end_date - booking.start_date + 1

\* (booking.end_date - booking.start_date).days
Nights(booking) == booking.end_date - booking.start_date

\* The row PaymentService.create_payment_for_booking creates.
NewPaymentForBooking(bid, booking, user, uuid) ==
  [booking |-> bid,
   reference |-> uuid,
   amount |-> ListingPrices[booking.listing] * Nights(booking),
   currency |-> "ETB",
   status |-> "pending",
   payment_method |-> NULL,
   chapa_transaction_ref |-> NULL,
   checkout_url |-> NULL,
   customer_email |-> user.email,
   customer_name |-> CustomerName(user),
   customer_phone |-> NULL,
   created_at |-> now]

\* The booking made where the payment's later life is explored: three nights
\* in the villa (test_payment_integration.py books three nights).
LifecycleBookings ==
  { [user |-> "ada", listing |-> "villa", start_date |-> 0, end_date |-> 3] }

\* ----------------------------------------------------------------- actions
Init ==
  /\ bookings = <<>>
  /\ payments = <<>>
  /\ now = 0
  /\ calls = [w \in Workers |-> IdleCall]
  /\ queue = EmptyBag
  /\ last = NoReturn
  /\ tx_refs = {}

\* BookingViewSet.perform_create: the booking is saved for the requesting
\* user, then create_payment_for_booking creates its payment.
\* uuid is what uuid4() returns for the new payment's reference; the column
\* is unique, and uuid4() is taken never to repeat a value.
CreateBooking(u, l, s, e, uuid) ==
  /\ \A p \in PaymentIds : payments[p].reference # uuid
  /\ LET booking == [listing |-> l, user |-> u, start_date |-> s, end_date |-> e]
         bid == Cardinality(DOMAIN bookings) + 1
     IN  /\ bookings' = Insert(bookings, booking)
         /\ payments' = Insert(payments, NewPaymentForBooking(bid, booking, Users[u], uuid))
         /\ last' = [NoReturn EXCEPT !.op = "create_payment_for_booking",
                                     !.pid = Cardinality(DOMAIN payments) + 1]
  /\ UNCHANGED <<now, calls, queue, tx_refs>>

\* ------------------------------------------------ PaymentService.initiate_payment
\* The result dictionary initiate_payment returns for a gateway result.
InitiateResult(payment_id, payment, result, nreq) ==
  IF result.success
  THEN [NoReturn EXCEPT !.op = "initiate_payment", !.pid = payment_id,
                        !.success = TRUE,
                        !.checkout_url = result.checkout_url,
                        !.payment_id = payment_id,
                        !.reference = payment.reference,
                        !.nreq = nreq]
  ELSE [NoReturn EXCEPT !.op = "initiate_payment", !.pid = payment_id,
                        !.error = result.error,
                        !.message = result.message,
                        !.nreq = nreq]

\* Mutant: the checkout URL is stored, the status is left as it was.
InitiateUpdate_StatusNotSet(payment, result) ==
  IF result.success
  THEN [payment EXCEPT !.chapa_transaction_ref = result.transaction_ref,
                       !.checkout_url = result.checkout_url]
  ELSE [payment EXCEPT !.status = "failed"]

\* Mutant: a failed initialization also clears what an earlier one stored.
InitiateUpdate_FailureClears(payment, result) ==
  IF result.success
  THEN [payment EXCEPT !.chapa_transaction_ref = result.transaction_ref,
                       !.checkout_url = result.checkout_url,
                       !.status = "processing"]
  ELSE [payment EXCEPT !.status = "failed",
                       !.chapa_transaction_ref = NULL,
                       !.checkout_url = NULL]

\* The instance as initiate_payment leaves it for a gateway result.
InitiateUpdate(payment, result) ==
  IF result.success
  THEN [payment EXCEPT !.chapa_transaction_ref = result.transaction_ref,
                       !.checkout_url = result.checkout_url,
                       !.status = "processing"]
  ELSE [payment EXCEPT !.status = "failed"]

\* The instance as the initiate_payment endpoint leaves it before the
\* service call: a field of the request is copied when it is given.
InitiateRequestUpdate(payment, req) ==
  [payment EXCEPT
     !.payment_method = IF Falsy(req.payment_method) THEN @ ELSE req.payment_method,
     !.customer_phone = IF Falsy(req.customer_phone) THEN @ ELSE req.customer_phone]

\* PaymentViewSet.initiate_payment up to the gateway request: the payment is
\* loaded, updated from the request and saved, and initiate_payment posts
\* the initialize request.
InitiateStart(w, p, req) ==
  /\ Free(w)
  /\ p \in PaymentIds
  /\ LET payment == InitiateRequestUpdate(payments[p], req)
     IN  /\ payments' = PaymentSave(payments, p, payment, 0)
         /\ calls' = [calls EXCEPT ![w] = [IdleCall EXCEPT !.op = "initiate_payment",
                                                           !.stage = "initialize",
                                                           !.pid = p,
                                                           !.payment = payment,
                                                           !.nreq = 1]]
         /\ tx_refs' = tx_refs \cup {payment.reference}
  /\ last' = NoReturn
  /\ UNCHANGED <<bookings, now, queue>>

\* The initialize request comes back: initiate_payment updates its instance,
\* saves it and returns.
InitiateReturn(w, resp) ==
  /\ calls[w].op = "initiate_payment"
  /\ calls[w].stage = "initialize"
  /\ LET p == calls[w].pid
         result == ChapaInitializePayment(resp)
         payment == InitiateUpdate(calls[w].payment, result)
     IN  /\ payments' = PaymentSave(payments, p, payment, 0)
         /\ last' = InitiateResult(p, payment, result, calls[w].nreq)
  /\ calls' = [calls EXCEPT ![w] = IdleCall]
  /\ UNCHANGED <<bookings, now, queue, tx_refs>>

\* ------------------------------------------- PaymentService.verify_payment_status
VerifyOps == {"verify_payment", "update_payment_status"}

\* What verify_payment_status still reads of the first verify result once it
\* is known to be a success: its amount and its currency.
KeptResult(result) ==
  [NoResult EXCEPT !.success = TRUE, !.amount = result.amount, !.currency = result.currency]

\* The result dictionary verify_payment_status returns without a gateway
\* request when the payment has no Chapa transaction reference.
MissingReferenceResult(op, payment_id) ==
  [NoReturn EXCEPT !.op = op, !.pid = payment_id,
                   !.error = "No Chapa transaction reference found",
                   !.message = "Payment verification failed"]

\* The payment is gone: Payment.objects.get raises DoesNotExist, which the
\* task logs; get_object of the endpoint answers 404.
NotFoundResult(op, payment_id) ==
  [NoReturn EXCEPT !.op = op, !.pid = payment_id,
                   !.error = IF op = "update_payment_status"
                             THEN "DoesNotExist" ELSE "Http404"]

\* The result dictionary for a failed verify request.
VerifyFailureResult(op, payment_id, result, nreq) ==
  [NoReturn EXCEPT !.op = op, !.pid = payment_id,
                   !.error = result.error,
                   !.message = result.message,
                   !.nreq = nreq]

\* The result dictionary after get_payment_status returned new_status; the
\* amount and currency are those of the first verify result.
VerifySuccessResult(op, payment_id, result, new_status, nreq) ==
  [NoReturn EXCEPT !.op = op, !.pid = payment_id,
                   !.success = TRUE,
                   !.status = new_status,
                   !.amount = result.amount,
                   !.currency = result.currency,
                   !.nreq = nreq]

\* get_payment_status raised: verify_payment_status neither saves nor returns.
VerifyRaisedResult(op, payment_id, nreq) ==
  [NoReturn EXCEPT !.op = op, !.pid = payment_id, !.raised = TRUE, !.nreq = nreq]

\* What update_payment_status enqueues for a result of verify_payment_status;
\* the verify_payment endpoint enqueues nothing.
NotificationsFor(op, payment_id, ret) ==
  IF op = "update_payment_status" /\ ret.success /\ ret.status = "completed"
  THEN SetToBag({[task |-> "send_payment_confirmation_email", id |-> payment_id]})
  ELSE IF op = "update_payment_status" /\ ret.success /\ ret.status = "failed"
  THEN SetToBag({[task |-> "send_payment_failed_email", id |-> payment_id]})
  ELSE EmptyBag

\* Mutant: the transaction reference is not checked before the request.
VerifyStart_NoReferenceCheck(w, op, p) ==
  /\ Free(w)
  /\ op \in VerifyOps
  /\ p \in PaymentIds
  /\ calls' = [calls EXCEPT ![w] = [IdleCall EXCEPT !.op = op,
                                                    !.stage = "verify",
                                                    !.pid = p,
                                                    !.payment = payments[p],
                                                    !.nreq = 1]]
  /\ last' = NoReturn
  /\ UNCHANGED <<bookings, payments, now, queue, tx_refs>>

\* The verify_payment endpoint or the update_payment_status task up to the
\* first gateway request: the payment is loaded, and when it is gone the
\* handler ends there; without a transaction reference
\* verify_payment_status returns at once.
VerifyStart(w, op, p) ==
  /\ Free(w)
  /\ op \in VerifyOps
  /\ p \in DOMAIN payments
  /\ IF p \notin PaymentIds
     THEN /\ last' = NotFoundResult(op, p)
          /\ UNCHANGED calls
     ELSE IF Falsy(payments[p].chapa_transaction_ref)
     THEN /\ last' = MissingReferenceResult(op, p)
          /\ UNCHANGED calls
     ELSE /\ calls' = [calls EXCEPT ![w] = [IdleCall EXCEPT !.op = op,
                                                            !.stage = "verify",
                                                            !.pid = p,
                                                            !.payment = payments[p],
                                                            !.nreq = 1]]
          /\ last' = NoReturn
  /\ UNCHANGED <<bookings, payments, now, queue, tx_refs>>

\* The first verify request comes back: on failure verify_payment_status
\* returns the error; on success get_payment_status sends a second request.
VerifyResult(w, resp) ==
  /\ calls[w].op \in VerifyOps
  /\ calls[w].stage = "verify"
  /\ LET result == ChapaVerifyPayment(resp)
     IN  IF result.success
         THEN /\ calls' = [calls EXCEPT ![w].stage = "get_payment_status",
                                        ![w].result = KeptResult(result),
                                        ![w].nreq = 2]
              /\ last' = NoReturn
         ELSE /\ calls' = [calls EXCEPT ![w] = IdleCall]
              /\ last' = VerifyFailureResult(calls[w].op, calls[w].pid, result, calls[w].nreq)
  /\ UNCHANGED <<bookings, payments, now, queue, tx_refs>>

\* The request of get_payment_status comes back: the mapped status is stored
\* on the instance, the instance is saved and the result returned; the task
\* then enqueues the notification.  When get_payment_status raises, nothing
\* is saved.
VerifyStatus(w, resp) ==
  /\ calls[w].op \in VerifyOps
  /\ calls[w].stage = "get_payment_status"
  /\ LET op == calls[w].op
         p == calls[w].pid
         new_status == ChapaGetPaymentStatus(resp)
         ret == VerifySuccessResult(op, p, calls[w].result, new_status, calls[w].nreq)
     IN  IF new_status = RAISED
         THEN /\ last' = VerifyRaisedResult(op, p, calls[w].nreq)
              /\ UNCHANGED <<payments, queue>>
         ELSE /\ payments' = PaymentSave(payments, p,
                                         [calls[w].payment EXCEPT !.status = new_status], 0)
              /\ last' = ret
              /\ queue' = queue (+) NotificationsFor(op, p, ret)
  /\ calls' = [calls EXCEPT ![w] = IdleCall]
  /\ UNCHANGED <<bookings, now, tx_refs>>

\* ------------------------------------------------------------------- tasks
\* Mutant: a payment created exactly at the cutoff time is selected too.
Expired_AtCutoff(payment) ==
  /\ payment.status = "pending"
  /\ payment.created_at <= now - CutoffHours

\* The rows cleanup_expired_payments selects.
Expired(payment) ==
  /\ payment.status = "pending"
  /\ payment.created_at < now - CutoffHours

\* cleanup_expired_payments: one UPDATE sets every selected row to failed.
CleanupExpiredPayments ==
  /\ payments' = [p \in DOMAIN payments |->
                    IF Expired(payments[p])
                    THEN [payments[p] EXCEPT !.status = "failed"]
                    ELSE payments[p]]
  /\ last' = [NoReturn EXCEPT !.op = "cleanup_expired_payments"]
  /\ UNCHANGED <<bookings, now, calls, queue, tx_refs>>

\* Mutant: the mail is sent without looking the payment up.
RunNotification_NoLookup(t, delivered) ==
  /\ BagIn(t, queue)
  /\ queue' = queue (-) SetToBag({t})
  /\ last' = [NoReturn EXCEPT !.op = t.task, !.pid = t.id,
                              !.success = delivered,
                              !.error = IF delivered THEN NULL ELSE "SMTPException"]
  /\ UNCHANGED <<bookings, payments, now, calls, tx_refs>>

\* Mutant: a mail that could not be sent marks the payment failed and
\* leaves the task on the queue for a retry.
RunNotification_RetryOnFailure(t, delivered) ==
  /\ BagIn(t, queue)
  /\ queue' = IF delivered \/ t.id \notin PaymentIds THEN queue (-) SetToBag({t}) ELSE queue
  /\ payments' = IF delivered \/ t.id \notin PaymentIds
                 THEN payments
                 ELSE [payments EXCEPT ![t.id].status = "failed"]
  /\ last' = IF t.id \in PaymentIds
             THEN [NoReturn EXCEPT !.op = t.task, !.pid = t.id,
                                   !.success = delivered,
                                   !.error = IF delivered THEN NULL ELSE "SMTPException"]
             ELSE [NoReturn EXCEPT !.op = t.task, !.pid = t.id,
                                   !.error = "DoesNotExist"]
  /\ UNCHANGED <<bookings, now, calls, tx_refs>>

\* A worker takes a notification task off the queue and runs it:
\* send_payment_confirmation_email or send_payment_failed_email loads the
\* payment, renders the message and calls send_mail, which delivers the
\* mail or raises; the exception is logged.  last.success tells whether a
\* mail went out.
RunNotification(t, delivered) ==
  /\ BagIn(t, queue)
  /\ queue' = queue (-) SetToBag({t})
  /\ last' = IF t.id \in PaymentIds
             THEN [NoReturn EXCEPT !.op = t.task, !.pid = t.id,
                                   !.success = delivered,
                                   !.error = IF delivered THEN NULL ELSE "SMTPException"]
             ELSE [NoReturn EXCEPT !.op = t.task, !.pid = t.id,
                                   !.error = "DoesNotExist"]
  /\ UNCHANGED <<bookings, payments, now, calls, tx_refs>>

\* The amounts a client sends in PUT or PATCH /payments/{id}/: 1.00.
UpdateAmounts == {100}

\* PaymentViewSet.update / partial_update: PaymentCreateSerializer accepts
\* booking, amount, currency and payment_method; the request here carries an
\* amount, which is set on the loaded instance, and the instance is saved.
PaymentUpdate(p, amount) ==
  /\ p \in PaymentIds
  /\ payments' = PaymentSave(payments, p, [payments[p] EXCEPT !.amount = amount], 0)
  /\ last' = [NoReturn EXCEPT !.op = "update", !.pid = p, !.success = TRUE]
  /\ UNCHANGED <<bookings, now, calls, queue, tx_refs>>

\* send_booking_confirmation_email run by a worker: the booking is loaded,
\* the message rendered and send_mail called; DoesNotExist and the
\* exception of send_mail are logged.
RunBookingEmail(b, delivered) ==
  /\ b \in DOMAIN bookings
  /\ last' = IF b \in BookingIds
             THEN [NoReturn EXCEPT !.op = "send_booking_confirmation_email", !.pid = b,
                                   !.success = delivered,
                                   !.error = IF delivered THEN NULL ELSE "SMTPException"]
             ELSE [NoReturn EXCEPT !.op = "send_booking_confirmation_email", !.pid = b,
                                   !.error = "DoesNotExist"]
  /\ UNCHANGED <<bookings, payments, now, calls, queue, tx_refs>>

\* PaymentViewSet.destroy: DELETE /payments/{id}/ deletes the row.
PaymentDestroy(p) ==
  /\ p \in PaymentIds
  /\ payments' = [payments EXCEPT ![p] = NoPayment]
  /\ last' = [NoReturn EXCEPT !.op = "destroy", !.pid = p, !.success = TRUE]
  /\ UNCHANGED <<bookings, now, calls, queue, tx_refs>>

\* BookingViewSet.destroy: DELETE /bookings/{id}/ deletes the booking and,
\* by on_delete=CASCADE, its payments.
BookingDestroy(b) ==
  /\ b \in BookingIds
  /\ bookings' = [bookings EXCEPT ![b] = NoBooking]
  /\ payments' = [p \in DOMAIN payments |->
                    IF payments[p].booking = b THEN NoPayment ELSE payments[p]]
  /\ last' = [NoReturn EXCEPT !.op = "destroy_booking", !.pid = b, !.success = TRUE]
  /\ UNCHANGED <<now, calls, queue, tx_refs>>

\* Time passes.
Tick ==
  /\ now' = now + TickHours
  /\ last' = NoReturn
  /\ UNCHANGED <<bookings, payments, calls, queue, tx_refs>>

\* h hours pass.
Pass(h) ==
  /\ now' = now + h
  /\ last' = NoReturn
  /\ UNCHANGED <<bookings, payments, calls, queue, tx_refs>>

Next ==
  \/ \E b \in LifecycleBookings, uuid \in Uuids :
       /\ Cardinality(DOMAIN bookings) < MaxBookings
       /\ CreateBooking(b.user, b.listing, b.start_date, b.end_date, uuid)
  \/ \E w \in Workers, p \in PaymentIds, req \in InitiateRequests : InitiateStart(w, p, req)
  \/ \E w \in Workers, resp \in InitializeResponses : InitiateReturn(w, resp)
  \/ \E w \in Workers, p \in PaymentIds : VerifyStart(w, "verify_payment", p)
  \/ \E w \in Workers, p \in PaymentIds :
       /\ BagCardinality(queue) < MaxQueue
       /\ VerifyStart(w, "update_payment_status", p)
  \/ \E w \in Workers, resp \in VerifyResponses : VerifyResult(w, resp)
  \/ \E w \in Workers, resp \in VerifyResponses : VerifyStatus(w, resp)
  \/ CleanupExpiredPayments
  \/ \E t \in BagToSet(queue), delivered \in BOOLEAN : RunNotification(t, delivered)
  \/ (now + TickHours <= MaxNow /\ Tick)

Spec == Init /\ [][Next]_vars

\* Booking creation alone, over every user, listing and pair of dates.
NextCreate ==
  \/ \E u \in UserIds, l \in ListingIds, s \in Days, e \in Days, uuid \in 1..MaxCreated :
       /\ Cardinality(DOMAIN bookings) < MaxCreated
       /\ CreateBooking(u, l, s, e, uuid)
  \/ (now + TickHours <= MaxNow /\ Tick)

SpecCreate == Init /\ [][NextCreate]_vars

\* Several payments, one request handled at a time: bookings are made at
\* different times, each payment is initiated and verified through the API,
\* and cleanup_expired_payments runs at any moment, also between the two
\* halves of a handler that waits for the gateway.
NextMany ==
  \/ \E b \in LifecycleBookings, uuid \in 1..MaxCreated :
       /\ Cardinality(DOMAIN bookings) < MaxCreated
       /\ CreateBooking(b.user, b.listing, b.start_date, b.end_date, uuid)
  \/ \E p \in PaymentIds, req \in InitiateRequests : InitiateStart(1, p, req)
  \/ \E resp \in InitializeResponses : InitiateReturn(1, resp)
  \/ \E p \in PaymentIds : VerifyStart(1, "verify_payment", p)
  \/ \E resp \in VerifyResponses : VerifyResult(1, resp)
  \/ \E resp \in VerifyResponses : VerifyStatus(1, resp)
  \/ CleanupExpiredPayments
  \/ \E p \in PaymentIds, amount \in UpdateAmounts : PaymentUpdate(p, amount)
  \/ \E h \in {HalfDay, HalfDay + 1} : now + h <= MaxNow /\ Pass(h)

SpecMany == Init /\ [][NextMany]_vars

\* The tasks, run by one worker, on a payment and a booking that the API
\* may delete at any moment (the booking while no handler waits for the
\* gateway).
NextTasks ==
  \/ \E b \in LifecycleBookings, uuid \in Uuids :
       /\ Cardinality(DOMAIN bookings) < MaxBookings
       /\ CreateBooking(b.user, b.listing, b.start_date, b.end_date, uuid)
  \/ \E p \in PaymentIds, req \in InitiateRequests : InitiateStart(1, p, req)
  \/ \E resp \in InitializeResponses : InitiateReturn(1, resp)
  \/ \E p \in DOMAIN payments :
       /\ BagCardinality(queue) < MaxQueue
       /\ VerifyStart(1, "update_payment_status", p)
  \/ \E resp \in VerifyResponses : VerifyResult(1, resp)
  \/ \E resp \in VerifyResponses : VerifyStatus(1, resp)
  \/ \E t \in BagToSet(queue), delivered \in BOOLEAN : RunNotification(t, delivered)
  \/ \E b \in DOMAIN bookings, delivered \in BOOLEAN : RunBookingEmail(b, delivered)
  \/ \E p \in PaymentIds : PaymentDestroy(p)
  \/ \E b \in BookingIds : calls[1] = IdleCall /\ BookingDestroy(b)

SpecTasks == Init /\ [][NextTasks]_vars

\* The program left to itself after the client has initiated payments:
\* clients book and initiate, the gateway answers, the clock advances and
\* the sweep runs.  No client calls verify_payment, and
\* update_payment_status runs only when something enqueues it with
\* .delay(), which no handler and no task does.  The gateway answers every
\* request and the sweep keeps running, so both are weakly fair.
NextLive ==
  \/ \E b \in LifecycleBookings, uuid \in 1..MaxCreated :
       /\ Cardinality(DOMAIN bookings) < MaxCreated
       /\ CreateBooking(b.user, b.listing, b.start_date, b.end_date, uuid)
  \/ \E p \in PaymentIds, req \in InitiateRequests : InitiateStart(1, p, req)
  \/ \E resp \in InitializeResponses : InitiateReturn(1, resp)
  \/ CleanupExpiredPayments
  \/ (now + TickHours <= MaxNow /\ Tick)

\* The same handlers with a gateway that is free not to answer.
\* requests.post(url, json=payload, headers=...) and requests.get(url,
\* headers=...) pass no timeout, so a handler waiting for a response has
\* no step of its own to take: InitiateReturn, VerifyResult and VerifyStatus
\* happen only when the gateway answers, and carry no fairness.  The clock
\* and the scheduled sweep keep going.
NextHang ==
  \/ \E b \in LifecycleBookings, uuid \in Uuids :
       /\ Cardinality(DOMAIN bookings) < MaxBookings
       /\ CreateBooking(b.user, b.listing, b.start_date, b.end_date, uuid)
  \/ \E p \in PaymentIds, req \in InitiateRequests : InitiateStart(1, p, req)
  \/ \E resp \in InitializeResponses : InitiateReturn(1, resp)
  \/ \E p \in PaymentIds : VerifyStart(1, "verify_payment", p)
  \/ \E resp \in VerifyResponses : VerifyResult(1, resp)
  \/ \E resp \in VerifyResponses : VerifyStatus(1, resp)
  \/ CleanupExpiredPayments
  \/ (now + TickHours <= MaxNow /\ Tick)

SpecHang ==
  /\ Init /\ [][NextHang]_vars
  /\ WF_vars(CleanupExpiredPayments)
  /\ WF_vars(now + TickHours <= MaxNow /\ Tick)

SpecLive ==
  /\ Init /\ [][NextLive]_vars
  /\ WF_vars(\E resp \in InitializeResponses : InitiateReturn(1, resp))
  /\ WF_vars(CleanupExpiredPayments)

\* ================================================================== claims
\* A step in which worker w's call of initiate_payment returns.
InitiateReturns(w) ==
  /\ calls[w].op = "initiate_payment"
  /\ calls'[w] = IdleCall

\* A step in which worker w's call of verify_payment_status returns after
\* get_payment_status (or ends there by raising).
VerifyStatusReturns(w) ==
  /\ calls[w].op \in VerifyOps
  /\ calls[w].stage = "get_payment_status"
  /\ calls'[w] = IdleCall

\* The statuses no transition of the state machine leaves.
TerminalStatuses == {"completed", "failed", "cancelled"}

\* C1: once a payment's status is completed, failed or cancelled, a call of
\* verify_payment_status made on it afterwards (the call loaded the terminal
\* status, and the row still holds it) leaves the stored status as it is,
\* whatever the gateway reports.
C1_StatusMonotonic ==
  [][\A w \in Workers :
       ( /\ VerifyStatusReturns(w)
         /\ calls[w].payment.status \in TerminalStatuses
         /\ payments[calls[w].pid].status = calls[w].payment.status )
       => payments'[calls[w].pid].status = payments[calls[w].pid].status]_vars

\* C2: of two verify_payment_status calls running at once on one payment,
\* the first terminal status written wins.  completed and cancelled are
\* written by verify_payment_status alone, so a call that loaded a
\* non-terminal status and finds the row completed or cancelled when it
\* returns has raced with another verify call; it must not overwrite the
\* stored status.
C2_FirstTerminalWins ==
  [][\A w \in Workers :
       ( /\ VerifyStatusReturns(w)
         /\ calls[w].payment.status \notin TerminalStatuses
         /\ payments[calls[w].pid].status \in {"completed", "cancelled"} )
       => payments'[calls[w].pid].status = payments[calls[w].pid].status]_vars

\* The edges of the payment state machine.
AllowedEdges ==
  { <<"pending", "processing">>, <<"pending", "failed">>, <<"pending", "cancelled">>,
    <<"processing", "completed">>, <<"processing", "failed">>,
    <<"processing", "cancelled">> }

\* C3: every change of a stored status follows an edge of the state machine.
C3_OnlyAllowedEdges ==
  [][\A p \in PaymentIds :
       payments'[p].status # payments[p].status
       => <<payments[p].status, payments'[p].status>> \in AllowedEdges]_vars

\* C4: when a gateway request made during verify_payment_status fails, the
\* stored status after the call is the status before it.
C4_VerifyFailureKeepsStatus ==
  [][\A w \in Workers, resp \in HttpFailures :
       /\ VerifyResult(w, resp) => payments' = payments
       /\ VerifyStatus(w, resp)
          => payments'[calls[w].pid].status = calls[w].payment.status]_vars

\* C5: a repeated verification is idempotent.  A run of
\* update_payment_status is a repeat when the normalized status it observes
\* is the status it loaded and the notification an earlier run enqueued for
\* that status is still waiting in the queue; such a run stores that same
\* status and enqueues no further notification.
C5_VerifyIdempotent ==
  [][\A w \in Workers :
       ( /\ VerifyStatusReturns(w)
         /\ calls[w].op = "update_payment_status"
         /\ last'.success
         /\ last'.status = calls[w].payment.status
         /\ \E t \in BagToSet(queue) : t.id = calls[w].pid )
       => /\ payments'[calls[w].pid].status = calls[w].payment.status
          /\ queue' = queue]_vars

\* C6: when the gateway initialize call succeeds, initiate_payment stores the
\* gateway's reference and checkout URL, sets the status to processing and
\* returns success with the checkout URL, the payment's id and its unchanged
\* reference.
C6_InitiateSuccess ==
  [][\A w \in Workers, resp \in InitializeResponses :
       ( /\ InitiateReturns(w)
         /\ InitiateReturn(w, resp)
         /\ resp.kind = "ok" /\ resp.data # "null" )
       => LET p == calls[w].pid
          IN  /\ payments'[p].chapa_transaction_ref = resp.reference
              /\ payments'[p].checkout_url = resp.checkout_url
              /\ payments'[p].status = "processing"
              /\ payments'[p].reference = payments[p].reference
              /\ last'.op = "initiate_payment"
              /\ last'.success
              /\ last'.checkout_url = resp.checkout_url
              /\ last'.payment_id = p
              /\ last'.reference = payments[p].reference]_vars

C6_Witness ==
  /\ last.op = "initiate_payment"
  /\ last.success
  /\ last.checkout_url = "https://checkout.chapa.co/a"
  /\ payments[last.pid].status = "processing"
  /\ payments[last.pid].chapa_transaction_ref = "chapa-a"

\* C7: when the gateway initialize call fails, initiate_payment sets the
\* status to failed, returns a failure carrying the error after its one
\* request, and leaves the other fields of the payment as it loaded them:
\* the row it saves is its instance with only the status changed, so a row
\* nobody else wrote since the call loaded it keeps its gateway reference,
\* checkout URL and amount.
C7_InitiateFailure ==
  [][\A w \in Workers, resp \in InitializeResponses :
       ( /\ InitiateReturns(w)
         /\ InitiateReturn(w, resp)
         /\ ~(resp.kind = "ok" /\ resp.data # "null") )
       => LET p == calls[w].pid
          IN  /\ payments'[p] = [calls[w].payment EXCEPT !.status = "failed"]
              /\ payments[p] = calls[w].payment
                 => /\ payments'[p].chapa_transaction_ref = payments[p].chapa_transaction_ref
                    /\ payments'[p].checkout_url = payments[p].checkout_url
                    /\ payments'[p].amount = payments[p].amount
              /\ payments'[p].reference = payments[p].reference
              /\ last'.op = "initiate_payment"
              /\ ~last'.success
              /\ last'.error = ErrorOf(resp)
              /\ last'.nreq = 1]_vars

C7_Witness ==
  /\ last.op = "initiate_payment"
  /\ ~last.success
  /\ last.error = "HTTPError"
  /\ last.nreq = 1
  /\ payments[last.pid].status = "failed"
  /\ payments[last.pid].chapa_transaction_ref = "chapa-a"

\* C8: initiate_payment invoked on a payment that is not pending makes no
\* gateway request and leaves status, gateway reference and checkout URL.
C8_InitiateOnlyPending ==
  [][\A w \in Workers :
       ( /\ InitiateReturns(w)
         /\ calls[w].payment.status # "pending" )
       => LET p == calls[w].pid
          IN  /\ last'.nreq = 0
              /\ payments'[p].status = calls[w].payment.status
              /\ payments'[p].chapa_transaction_ref = calls[w].payment.chapa_transaction_ref
              /\ payments'[p].checkout_url = calls[w].payment.checkout_url]_vars

\* C9: verify_payment_status on a payment without a Chapa transaction
\* reference returns the missing-reference failure, sends no gateway
\* request and changes nothing.
C9_VerifyMissingReference ==
  [][\A w \in Workers, op \in VerifyOps, p \in PaymentIds :
       ( /\ VerifyStart(w, op, p)
         /\ Falsy(payments[p].chapa_transaction_ref) )
       => /\ last'.op = op
          /\ last'.pid = p
          /\ ~last'.success
          /\ ~last'.raised
          /\ last'.error = "No Chapa transaction reference found"
          /\ last'.nreq = 0
          /\ calls' = calls
          /\ payments' = payments
          /\ queue' = queue]_vars

C9_Witness ==
  /\ last.op \in VerifyOps
  /\ last.error = "No Chapa transaction reference found"
  /\ Falsy(payments[last.pid].chapa_transaction_ref)

\* C10: for a booking of nights > 0, create_payment_for_booking adds exactly
\* one payment, for that booking, of amount nights * price_per_night, in
\* status pending, with the payer's email and name.
C10_CreatePayment ==
  [][\A u \in UserIds, l \in ListingIds, s \in Days, e \in Days, uuid \in 1..MaxCreated :
       ( /\ CreateBooking(u, l, s, e, uuid)
         /\ e - s > 0 )
       => \E new \in PaymentIds' \ PaymentIds :
            /\ PaymentIds' = PaymentIds \cup {new}
            /\ \A p \in PaymentIds : payments'[p] = payments[p]
            /\ BookingIds' \ BookingIds = {payments'[new].booking}
            /\ payments'[new].amount = (e - s) * ListingPrices[l]
            /\ payments'[new].amount > 0
            /\ payments'[new].status = "pending"
            /\ payments'[new].customer_email = Users[u].email
            /\ payments'[new].customer_name =
                 IF u = "ada" THEN <<"Ada", "Lovelace">> ELSE <<"bob">>]_vars

C10_Witness ==
  /\ last.op = "create_payment_for_booking"
  /\ bookings[payments[last.pid].booking].end_date
       - bookings[payments[last.pid].booking].start_date = 3
  /\ payments[last.pid].amount = 30000
  /\ payments[last.pid].customer_name = <<"Ada", "Lovelace">>
  /\ Cardinality(PaymentIds) = 2

\* C11: create_payment_for_booking on a booking whose end_date is not after
\* its start_date fails and creates no Payment, so that no stored Payment has
\* an amount of zero or less.
C11_RejectsNonPositiveStay ==
  [][\A u \in UserIds, l \in ListingIds, s \in Days, e \in Days, uuid \in 1..MaxCreated :
       ( /\ CreateBooking(u, l, s, e, uuid)
         /\ e <= s )
       => /\ payments' = payments
          /\ \A p \in PaymentIds' : payments'[p].amount > 0]_vars

\* C12: one run of cleanup_expired_payments sets to failed every payment that
\* is pending and was created more than 24 hours before the run, and leaves
\* every other payment (pending for 24 hours or less, or in any other
\* status) as it was.
C12_CleanupExpired ==
  [][CleanupExpiredPayments
     => /\ PaymentIds' = PaymentIds
        /\ \A p \in PaymentIds :
             payments'[p] =
               IF payments[p].status = "pending" /\ now - payments[p].created_at > 24
               THEN [payments[p] EXCEPT !.status = "failed"]
               ELSE payments[p]]_vars

\* A run has just expired a payment that was never initiated and has left a
\* payment that is still pending half a day after its creation.
C12_Witness ==
  /\ last.op = "cleanup_expired_payments"
  /\ \E p \in PaymentIds, q \in PaymentIds :
       /\ payments[p].status = "failed"
       /\ payments[p].payment_method = NULL
       /\ now - payments[p].created_at > 24
       /\ payments[q].status = "pending"
       /\ now - payments[q].created_at \in 1..24

\* The local status the mapping is to give for a remote status; the letter
\* case of the remote value is left out of the claim.
NormalizedStatus(remote) ==
  CASE remote = "success" -> "completed"
    [] remote = "pending" -> "pending"
    [] remote = "failed" -> "failed"
    [] remote = "cancelled" -> "cancelled"
    [] OTHER -> "pending"

\* C13: status normalization is total.  For every 2xx answer to the request
\* of get_payment_status whose body is an object, the call returns the mapped
\* status: completed for success, pending, failed and cancelled for
\* themselves, and pending for every other value and for a missing status;
\* nothing but success gives completed.
C13_NormalizationTotal ==
  [][\A w \in Workers, resp \in VerifyResponses :
       ( /\ VerifyStatus(w, resp)
         /\ resp.kind = "ok"
         /\ resp.data # "null"
         /\ resp.status # "SUCCESS" )
       => /\ ~last'.raised
          /\ last'.success
          /\ last'.status = NormalizedStatus(resp.status)
          /\ payments'[calls[w].pid].status = NormalizedStatus(resp.status)]_vars

\* C14: every payment has a reference from its creation on, no two payments
\* share one, and no step (a save, initiate_payment, verify_payment_status,
\* cleanup_expired_payments) changes the reference of a payment.
C14_ReferenceUniqueImmutable ==
  [][/\ \A p \in PaymentIds \cap PaymentIds' :
          payments'[p].reference = payments[p].reference
     /\ \A p \in PaymentIds' : payments'[p].reference # 0
     /\ \A p \in PaymentIds', q \in PaymentIds' :
          p # q => payments'[p].reference # payments'[q].reference]_vars

\* Two payments with their two references, one verified to completed and
\* the other expired by cleanup_expired_payments.
C14_Witness ==
  /\ Cardinality(PaymentIds) = 2
  /\ \E p \in PaymentIds, q \in PaymentIds :
       /\ payments[p].reference # payments[q].reference
       /\ payments[p].status = "completed"
       /\ payments[q].status = "failed"
       /\ payments[q].payment_method = NULL

\* C15: once a payment's chapa_transaction_ref holds a value, no step
\* changes it or clears it.
C15_GatewayRefImmutable ==
  [][\A p \in PaymentIds \cap PaymentIds' :
       ~Falsy(payments[p].chapa_transaction_ref)
       => payments'[p].chapa_transaction_ref = payments[p].chapa_transaction_ref]_vars

\* C16: the amount of a payment never changes after its creation.
C16_AmountImmutable ==
  [][\A p \in PaymentIds \cap PaymentIds' :
       payments'[p].amount = payments[p].amount]_vars

\* C17: whenever a verification, through the verify_payment endpoint or the
\* update_payment_status task, moves a payment into completed, one
\* send_payment_confirmation_email task is enqueued for it, and whenever it
\* moves a payment into failed, one send_payment_failed_email task.
C17_VerifyNotifies ==
  [][\A w \in Workers :
       VerifyStatusReturns(w)
       => LET p == calls[w].pid
              confirmation == [task |-> "send_payment_confirmation_email", id |-> p]
              failure == [task |-> "send_payment_failed_email", id |-> p]
          IN  /\ ( payments[p].status # "completed" /\ payments'[p].status = "completed" )
                 => CopiesIn(confirmation, queue') = CopiesIn(confirmation, queue) + 1
              /\ ( payments[p].status # "failed" /\ payments'[p].status = "failed" )
                 => CopiesIn(failure, queue') = CopiesIn(failure, queue) + 1]_vars

\* C18: the end-to-end order of events.  The booking of three nights in the
\* villa (100.00 a night) gets a pending payment of 300.00; a successful
\* initiate of that pending payment returns the checkout URL and sets the
\* status to processing; a verify of that processing payment for which the
\* gateway reports success sets the status to completed and enqueues the
\* confirmation task.
C18_EndToEnd ==
  [][/\ \A b \in LifecycleBookings, uuid \in Uuids :
          CreateBooking(b.user, b.listing, b.start_date, b.end_date, uuid)
          => /\ payments'[last'.pid].amount = 30000
             /\ payments'[last'.pid].status = "pending"
     /\ \A w \in Workers, resp \in InitializeResponses :
          ( /\ InitiateReturn(w, resp)
            /\ resp.kind = "ok" /\ resp.checkout_url # NULL
            /\ calls[w].payment.status = "pending"
            /\ calls[w].payment.amount = 30000 )
          => /\ last'.success
             /\ last'.checkout_url = resp.checkout_url
             /\ payments'[calls[w].pid].status = "processing"
     /\ \A w \in Workers, resp \in VerifyResponses :
          ( /\ VerifyStatus(w, resp)
            /\ resp.kind = "ok" /\ resp.status = "success"
            /\ calls[w].payment.status = "processing"
            /\ calls[w].payment.amount = 30000
            /\ payments[calls[w].pid] = calls[w].payment )
          => LET p == calls[w].pid
                 confirmation == [task |-> "send_payment_confirmation_email", id |-> p]
             IN  /\ last'.success
                 /\ last'.status = "completed"
                 /\ payments'[p] = [payments[p] EXCEPT !.status = "completed"]
                 /\ CopiesIn(confirmation, queue') = CopiesIn(confirmation, queue) + 1]_vars

\* C19: initiate_payment and verify_payment_status return a result, success
\* or failure, for every gateway outcome; they never raise.
C19_NeverRaises ==
  [][\A w \in Workers :
       ( \/ InitiateReturns(w)
         \/ calls[w].op \in VerifyOps /\ calls'[w] = IdleCall )
       => /\ last'.op = calls[w].op
          /\ ~last'.raised]_vars

\* C20: every task is idempotent under at-least-once delivery.  A
\* notification task run again for the same payment right after a run that
\* sent its mail sends no further mail; a run of update_payment_status on a
\* payment that an earlier run has brought to a terminal status (the
\* notification of that run is still in the queue), with the gateway
\* reporting that same status, changes no payment and enqueues no task.
C20_TasksIdempotent ==
  [][/\ \A t \in BagToSet(queue), delivered \in BOOLEAN :
          ( /\ RunNotification(t, delivered)
            /\ last.op = t.task /\ last.pid = t.id /\ last.success )
          => /\ ~last'.success
             /\ payments' = payments
     /\ \A w \in Workers :
          ( /\ VerifyStatusReturns(w)
            /\ calls[w].op = "update_payment_status"
            /\ calls[w].payment.status \in TerminalStatuses
            /\ payments[calls[w].pid] = calls[w].payment
            /\ \E t \in BagToSet(queue) : t.id = calls[w].pid
            /\ last'.success
            /\ last'.status = calls[w].payment.status )
          => /\ payments' = payments
             /\ queue' = queue]_vars

\* C21: a task executed for a payment or booking id that no longer exists
\* ends without raising, sends no mail, sends no gateway request, enqueues
\* nothing and changes no stored record.
C21_MissingIdTasks ==
  [][/\ \A w \in Workers, p \in (DOMAIN payments) \ PaymentIds :
          VerifyStart(w, "update_payment_status", p)
          => /\ last'.op = "update_payment_status"
             /\ ~last'.raised /\ ~last'.success /\ last'.nreq = 0
             /\ calls' = calls /\ queue' = queue
             /\ payments' = payments /\ bookings' = bookings
     /\ \A t \in BagToSet(queue), delivered \in BOOLEAN :
          ( RunNotification(t, delivered) /\ t.id \notin PaymentIds )
          => /\ last'.op = t.task
             /\ ~last'.raised /\ ~last'.success /\ last'.nreq = 0
             /\ calls' = calls /\ queue' = queue (-) SetToBag({t})
             /\ payments' = payments /\ bookings' = bookings
     /\ \A b \in (DOMAIN bookings) \ BookingIds, delivered \in BOOLEAN :
          RunBookingEmail(b, delivered)
          => /\ last'.op = "send_booking_confirmation_email"
             /\ ~last'.raised /\ ~last'.success /\ last'.nreq = 0
             /\ calls' = calls /\ queue' = queue
             /\ payments' = payments /\ bookings' = bookings]_vars

\* A notification task has just run for a payment deleted after the task
\* was enqueued.
C21_Witness ==
  /\ last.op \in {"send_payment_confirmation_email", "send_payment_failed_email"}
  /\ last.error = "DoesNotExist"
  /\ ~last.success
  /\ last.pid \in (DOMAIN payments) \ PaymentIds

\* C22: BookingViewSet.perform_create enqueues one
\* send_booking_confirmation_email task for the booking it creates.
C22_BookingEmailEnqueued ==
  [][\A u \in UserIds, l \in ListingIds, s \in Days, e \in Days, uuid \in 1..MaxCreated :
       CreateBooking(u, l, s, e, uuid)
       => \E b \in BookingIds' \ BookingIds :
            LET t == [task |-> "send_booking_confirmation_email", id |-> b]
            IN  CopiesIn(t, queue') = CopiesIn(t, queue) + 1]_vars

\* C23: in every reachable state a payment in status processing has a
\* gateway reference and a checkout URL, in its row and in every copy a
\* handler has loaded.
C23_ProcessingHasRefAndUrl ==
  /\ \A p \in PaymentIds :
       payments[p].status = "processing"
       => /\ ~Falsy(payments[p].chapa_transaction_ref)
          /\ ~Falsy(payments[p].checkout_url)
  /\ \A w \in Workers :
       calls[w].payment.status = "processing"
       => /\ ~Falsy(calls[w].payment.chapa_transaction_ref)
          /\ ~Falsy(calls[w].payment.checkout_url)

\* C24: every gateway initialize request carries a tx_ref that no earlier
\* initialize request carried.
C24_TxRefUniquePerRequest ==
  [][\A w \in Workers, p \in PaymentIds, req \in InitiateRequests :
       InitiateStart(w, p, req) => payments[p].reference \notin tx_refs]_vars

\* C25: a payment that cleanup_expired_payments has set to failed while an
\* initiate_payment or verify_payment_status call on it was waiting for the
\* gateway stays failed when that call saves.  With one handler at a time, a
\* call that loaded the payment pending and finds the row failed and older
\* than the cutoff has been overtaken by the sweep.
C25_SweepNotOverwritten ==
  [][\A w \in Workers :
       ( /\ InitiateReturns(w) \/ VerifyStatusReturns(w)
         /\ calls[w].payment.status = "pending"
         /\ calls[w].pid \in PaymentIds
         /\ payments[calls[w].pid].status = "failed"
         /\ now - payments[calls[w].pid].created_at > 24 )
       => payments'[calls[w].pid].status = "failed"]_vars

\* C26: one verify_payment_status call observes the gateway once: the call
\* sends one verify request, and the status it stores and returns and the
\* amount and currency it returns are those of one and the same response.
C26_SingleObservation ==
  [][\A w \in Workers, resp \in VerifyResponses :
       ( VerifyStatus(w, resp) /\ last'.success )
       => /\ last'.nreq = 1
          /\ last'.amount = resp.amount
          /\ last'.currency = resp.currency
          /\ last'.status = payments'[calls[w].pid].status]_vars

\* C28: every gateway call is bounded: a handler that has sent a request to
\* the gateway returns even if the gateway never answers it.
C28_GatewayCallReturns ==
  (calls[1] # IdleCall) ~> (calls[1] = IdleCall)

\* C29: when send_mail fails in send_payment_confirmation_email or
\* send_payment_failed_email the task logs the exception and ends normally:
\* nothing is raised, the task leaves the queue and nothing is put on it,
\* no handler in flight is disturbed, and every payment row, the status
\* stored by the verification included, is as it was.
C29_MailFailureSwallowed ==
  [][\A t \in BagToSet(queue) :
       ( t.id \in PaymentIds /\ RunNotification(t, FALSE) )
       => /\ ~last'.raised
          /\ last'.error = "SMTPException"
          /\ queue' = queue (-) SetToBag({t})
          /\ payments' = payments
          /\ calls' = calls]_vars

C29_Witness ==
  /\ last.op \in {"send_payment_confirmation_email", "send_payment_failed_email"}
  /\ last.error = "SMTPException"
  /\ ~last.raised
  /\ last.pid \in PaymentIds
  /\ payments[last.pid].status \in {"completed", "failed"}

\* C30: ChapaService.initialize_payment and ChapaService.verify_payment
\* never raise.  When the request fails in transport or the response is not
\* 2xx the caller gets a result with success = False and an error, and a
\* result with success = True comes from a 2xx response only.
C30_GatewayResultTagged ==
  [][/\ \A resp \in InitializeResponses :
          InitiateReturn(1, resp)
          => /\ ~last'.raised
             /\ last'.op = "initiate_payment"
             /\ resp \in HttpFailures => ( ~last'.success /\ last'.error # NULL )
             /\ last'.success => resp.kind = "ok"
     /\ \A resp \in VerifyResponses :
          VerifyResult(1, resp)
          => /\ ~last'.raised
             /\ resp \in HttpFailures
                => /\ calls'[1] = IdleCall
                   /\ ~last'.success
                   /\ last'.error # NULL
             /\ calls'[1].stage = "get_payment_status"
                => ( resp.kind = "ok" /\ calls'[1].result.success )]_vars

C30_Witness ==
  /\ last.op \in VerifyOps
  /\ ~last.success
  /\ ~last.raised
  /\ last.error = "HTTPError"
  /\ last.nreq = 1

\* C27: every payment that reaches processing is re-verified without a
\* client request, so that it eventually reaches completed, failed or
\* cancelled.
C27_ProcessingEventuallyTerminal ==
  \A p \in 1..MaxCreated :
    ( p \in PaymentIds /\ payments[p].status = "processing" )
    ~> ( p \in PaymentIds /\ payments[p].status \in TerminalStatuses )

====
